---- MODULE Spec2Model ----
(***************************************************************************)
(* Summarization round trip of the memo application.                       *)
(*                                                                         *)
(*   Gateway   : POST /api/summarize            (app/api/summarize/route.ts)*)
(*   Requestor : the MemoViewer component       (MemoViewer, handleSummarize)*)
(*                                                                         *)
(* The Requestor's asynchronous handler handleSummarize is split at its    *)
(* await points; every handler instance that has been started and has not  *)
(* reached its finally block is an element of calls.  A render of the      *)
(* component with new props and the effect it schedules are one step.      *)
(***************************************************************************)
EXTENDS Integers, Sequences, FiniteSets, TLC

(* ---------------------------------------------------------------- bounds *)
MaxCalls == 2       \* summarizations started in one behaviour
MaxExternal == 2    \* requests sent to the gateway by other callers

(* ------------------------------------------------------ JavaScript values *)
Undefined == "<undefined>"
Null == "<null>"
UndefTs == -1       \* an absent summaryUpdatedAt field
NoTs == 0           \* summaryUpdatedAt state: null
T1 == 1             \* timestamp of the summaries stored before the run

\* !x for the values that occur here
Falsy(x) == x \in {Undefined, Null, ""}

(* --------------------------------------------------------------- messages *)
KeyMissingMsg == "GEMINI_API_KEY is not defined"
ContentRequiredMsg == "Content is required"
FailedMsg == "Failed to generate summary"
\* the two localized (Korean) texts of handleSummarize, by their meaning
GenericMsg == "ko: failed to generate the summary"
UnknownMsg == "ko: an unknown error occurred"
FetchErrorMsg == "Failed to fetch"
JsonErrorMsg == "Unexpected token < in JSON"
SaveErrorMsg == "saveMemoSummary failed"

(* ================================================================ Gateway *)
\* process.env.GEMINI_API_KEY
KeyValues == {Undefined, "", "key"}

\* what request.json() can make of a request body
Body(parses, isNull, title, content) ==
    [parses |-> parses, isNull |-> isNull, title |-> title, content |-> content]

ContentValues == {Undefined, Null, "", "c"}

Bodies ==
    {Body(FALSE, FALSE, Undefined, Undefined), Body(TRUE, TRUE, Undefined, Undefined)}
    \cup {Body(TRUE, FALSE, t, c) : t \in {Undefined, "t"}, c \in ContentValues}

\* model.generateContent(prompt) followed by response.text()
ProviderOutcomes ==
    {[throws |-> TRUE, text |-> ""]}
    \cup {[throws |-> FALSE, text |-> s] : s \in {"", "S1"}}

Prompt(title, content) ==
    <<"ko: summarize the following memo concisely", "title: ", title,
      "content:", content, "ko: 3-5 lines with the key points",
      "ko: output as Markdown">>

Reply(status, error, sum, invoked, prompt) ==
    [status |-> status, error |-> error, summary |-> sum,
     invoked |-> invoked, prompt |-> prompt]

\* faulty variant: the content check placed before the credential check
POST_ContentFirst(apiKey, body, provider) ==
    IF ~body.parses \/ body.isNull
    THEN Reply(500, FailedMsg, Undefined, FALSE, <<>>)
    ELSE IF Falsy(body.content)
    THEN Reply(400, ContentRequiredMsg, Undefined, FALSE, <<>>)
    ELSE IF Falsy(apiKey)
    THEN Reply(500, KeyMissingMsg, Undefined, FALSE, <<>>)
    ELSE IF provider.throws
    THEN Reply(500, FailedMsg, Undefined, TRUE, Prompt(body.title, body.content))
    ELSE Reply(200, Undefined, provider.text, TRUE, Prompt(body.title, body.content))

\* faulty variant: the content check dropped
POST_NoContentCheck(apiKey, body, provider) ==
    IF Falsy(apiKey)
    THEN Reply(500, KeyMissingMsg, Undefined, FALSE, <<>>)
    ELSE IF ~body.parses \/ body.isNull
    THEN Reply(500, FailedMsg, Undefined, FALSE, <<>>)
    ELSE IF provider.throws
    THEN Reply(500, FailedMsg, Undefined, TRUE, Prompt(body.title, body.content))
    ELSE Reply(200, Undefined, provider.text, TRUE, Prompt(body.title, body.content))

\* export async function POST(request)
POST(apiKey, body, provider) ==
    IF Falsy(apiKey)
    THEN Reply(500, KeyMissingMsg, Undefined, FALSE, <<>>)
    \* request.json() rejects, or destructuring null throws: the catch block
    ELSE IF ~body.parses \/ body.isNull
    THEN Reply(500, FailedMsg, Undefined, FALSE, <<>>)
    ELSE IF Falsy(body.content)
    THEN Reply(400, ContentRequiredMsg, Undefined, FALSE, <<>>)
    \* generateContent / response.text() throws: the catch block
    ELSE IF provider.throws
    THEN Reply(500, FailedMsg, Undefined, TRUE, Prompt(body.title, body.content))
    ELSE Reply(200, Undefined, provider.text, TRUE, Prompt(body.title, body.content))

(* ============================================================== Requestor *)
MemoIds == {"A", "B"}

MemoRecord(id, content, sum, at) ==
    [id |-> id, content |-> content, summary |-> sum, summaryUpdatedAt |-> at]

\* memo: null
NoMemo == MemoRecord(Null, Undefined, Undefined, UndefTs)

\* memos that have never been summarized, with and without content
NewMemos(id) == {MemoRecord(id, c, Undefined, UndefTs) : c \in {"", "c"}}

\* what the Requestor can see of a response of fetch('/api/summarize')
Response(status, parses, error, sum) ==
    [status |-> status, parses |-> parses, error |-> error, summary |-> sum]

NoResponse == Response(0, FALSE, Undefined, Undefined)

\* answers that do not come from the gateway's handler (a proxy, the platform)
InfraResponses ==
    {Response(502, FALSE, Undefined, Undefined),
     Response(503, TRUE, Undefined, Undefined),
     Response(503, TRUE, "boom", Undefined)}

\* response.ok
Ok(status) == status >= 200 /\ status <= 299

Call(id, m, stage, resp, data) ==
    [id |-> id, memoId |-> m.id, title |-> m.id, content |-> m.content,
     stage |-> stage, resp |-> resp, data |-> data]

VARIABLES
    env,               \* process.env.GEMINI_API_KEY of the server process
    gw,                \* the last request of another caller and its reply
    providerCalls,     \* invocations of the external provider
    extPosts,          \* requests of other callers handled so far
    memos,             \* the parent's memo records
    memo, isOpen,      \* props of MemoViewer
    summary, isSummarizing, summaryError, summaryUpdatedAt,   \* its state
    calls,             \* handleSummarize instances that have not finished
    nCalls,            \* handleSummarize instances started
    persistCalls,      \* invocations of saveMemoSummary
    clock,             \* the last timestamp handed out
    loaded,            \* the pair the re-sync effect loaded last
    produced           \* the result of the last summarization that succeeded

vars == <<env, gw, providerCalls, extPosts, memos, memo, isOpen, summary,
          isSummarizing, summaryError, summaryUpdatedAt, calls, nCalls,
          persistCalls, clock, loaded, produced>>

gwVars == <<gw, providerCalls, extPosts>>
propVars == <<memos, memo, isOpen>>
display == <<summary, summaryUpdatedAt>>
ghostVars == <<loaded, produced>>


(* ------------------------------------------------ MemoViewer: local state *)
State(sum, at, err, busy) ==
    [summary |-> sum, summaryUpdatedAt |-> at, summaryError |-> err,
     isSummarizing |-> busy]

\* the four useState cells, as last rendered
CurState == State(summary, summaryUpdatedAt, summaryError, isSummarizing)

SetState(st) ==
    /\ summary' = st.summary
    /\ summaryUpdatedAt' = st.summaryUpdatedAt
    /\ summaryError' = st.summaryError
    /\ isSummarizing' = st.isSummarizing

\* x || ''
OrEmpty(x) == IF Falsy(x) THEN "" ELSE x

\* x || null, for a timestamp
OrNull(t) == IF t \in {UndefTs, NoTs} THEN NoTs ELSE t

\* the dependency list of the re-sync effect
Deps(m) == <<m.id, m.summary, m.summaryUpdatedAt>>

\* whether rendering with memo next after memo prev runs the effect's body
EffectFires(prev, next) == Deps(prev) # Deps(next) /\ next # NoMemo

\* faulty variant: the effect forgets the error
ResyncEffect_KeepsError(st, prev, next) ==
    IF EffectFires(prev, next)
    THEN [st EXCEPT !.summary = OrEmpty(next.summary),
                    !.summaryUpdatedAt = OrNull(next.summaryUpdatedAt)]
    ELSE st

\* useEffect(() => { if (memo) {...} }, [memo?.id, memo?.summary, memo?.summaryUpdatedAt])
ResyncEffect(st, prev, next) ==
    IF EffectFires(prev, next)
    THEN [st EXCEPT !.summary = OrEmpty(next.summary),
                    !.summaryUpdatedAt = OrNull(next.summaryUpdatedAt),
                    !.summaryError = Null]
    ELSE st

\* faulty variant: the control is not disabled while a summarization runs
SummarizeEnabled_NotDisabled == isOpen /\ memo # NoMemo

\* the summarize button is rendered and not disabled
SummarizeEnabled == isOpen /\ memo # NoMemo /\ ~isSummarizing

\* setIsSummarizing(true); setSummaryError(null)
Begin(st) == [st EXCEPT !.isSummarizing = TRUE, !.summaryError = Null]

Thrown(isError, message) == [isError |-> isError, message |-> message]

\* faulty variant: the error text of the body is ignored
NotOkError_IgnoresBody(resp) == Thrown(TRUE, GenericMsg)

\* throw new Error(data.error || generic)
NotOkError(resp) == Thrown(TRUE, IF Falsy(resp.error) THEN GenericMsg ELSE resp.error)

\* faulty variant: the catch block shows the generic text whatever was thrown
Catch_AlwaysGeneric(st, thrown) == [st EXCEPT !.summaryError = GenericMsg]

\* faulty variant: the catch block also drops the displayed summary
Catch_ClearsSummary(st, thrown) ==
    [st EXCEPT !.summaryError = IF thrown.isError THEN thrown.message ELSE UnknownMsg,
               !.summary = "", !.summaryUpdatedAt = NoTs]

\* catch (error) { setSummaryError(error instanceof Error ? error.message : unknown) }
Catch(st, thrown) ==
    [st EXCEPT !.summaryError = IF thrown.isError THEN thrown.message ELSE UnknownMsg]

\* faulty variant: the flag is not cleared
Finally_KeepsFlag(st) == st

\* finally { setIsSummarizing(false) }
Finally(st) == [st EXCEPT !.isSummarizing = FALSE]

\* faulty variant: the fallback keeps the timestamp that was displayed
ApplySaved_StaleTimestamp(st, rec, data, now) ==
    IF rec # NoMemo
    THEN [st EXCEPT !.summary = OrEmpty(rec.summary),
                    !.summaryUpdatedAt = OrNull(rec.summaryUpdatedAt)]
    ELSE [st EXCEPT !.summary = data]

\* if (updatedMemo) {...} else {...}, without the call of onMemoUpdate
ApplySaved(st, rec, data, now) ==
    IF rec # NoMemo
    THEN [st EXCEPT !.summary = OrEmpty(rec.summary),
                    !.summaryUpdatedAt = OrNull(rec.summaryUpdatedAt)]
    ELSE [st EXCEPT !.summary = data, !.summaryUpdatedAt = now]

\* saveMemoSummary(memoId, summaryText) when it returns the updated record
SaveMemoSummary(id, text, now) ==
    MemoRecord(id, memos[id].content, text, now)

(* -------------------------------------------------------- history records *)
Pair(st) == <<st.summary, st.summaryUpdatedAt>>

\* the bookkeeping of a render: what the effect loaded
Track(prev, next) ==
    loaded' = IF EffectFires(prev, next)
              THEN <<OrEmpty(next.summary), OrNull(next.summaryUpdatedAt)>>
              ELSE loaded

(* ------------------------------------------------------------------- Init *)
InitWith(keys) ==
    /\ env \in keys
    /\ gw = <<>>
    /\ providerCalls = 0
    /\ extPosts = 0
    /\ \E b \in NewMemos("B") :
          memos = [i \in MemoIds |-> IF i = "A" THEN MemoRecord("A", "c", "old", T1) ELSE b]
    /\ memo = NoMemo
    /\ isOpen = FALSE
    /\ summary = ""
    /\ isSummarizing = FALSE
    /\ summaryError = Null
    /\ summaryUpdatedAt = NoTs
    /\ calls = {}
    /\ nCalls = 0
    /\ persistCalls = 0
    /\ clock = T1
    /\ loaded = <<"", NoTs>>
    /\ produced = <<>>

\* GatewayInit covers every value of the credential; for the Requestor an
\* empty credential is an absent one (POST tests !apiKey only)
GatewayInit == InitWith(KeyValues)

Init == InitWith({Undefined, "key"})

(* ------------------------------------------------------ the parent's moves *)
\* the parent renders the viewer with memo next
Render(next, open) ==
    /\ memo' = next
    /\ isOpen' = open
    /\ SetState(ResyncEffect(CurState, memo, next))
    /\ Track(memo, next)

\* a memo of the list is opened
OpenMemo(id) ==
    /\ ~(isOpen /\ memo = memos[id])
    /\ Render(memos[id], TRUE)
    /\ UNCHANGED <<env, gwVars, memos, calls, nCalls, persistCalls, clock, produced>>

\* onClose: the parent hides the viewer, keeping or dropping the selected memo
CloseViewer(keep) ==
    /\ isOpen
    /\ Render(IF keep THEN memo ELSE NoMemo, FALSE)
    /\ UNCHANGED <<env, gwVars, memos, calls, nCalls, persistCalls, clock, produced>>

(* -------------------------------------------------------- handleSummarize *)
\* a click on the summarize control: the handler up to its first await
Trigger ==
    /\ SummarizeEnabled
    /\ memo # NoMemo
    /\ nCalls < MaxCalls
    /\ SetState(Begin(CurState))
    /\ calls' = calls \cup {Call(nCalls + 1, memo, "fetch", NoResponse, Undefined)}
    /\ nCalls' = nCalls + 1
    /\ UNCHANGED <<env, gwVars, propVars, persistCalls, clock, ghostVars>>

\* the handler instance c ends in its catch block
Fail(c, thrown) ==
    /\ SetState(Finally(Catch(CurState, thrown)))
    /\ calls' = calls \ {c}

\* fetch rejects: no answer reaches the Requestor
FetchRejects(c) ==
    /\ c.stage = "fetch"
    /\ Fail(c, Thrown(TRUE, FetchErrorMsg))
    /\ UNCHANGED <<env, gwVars, propVars, nCalls, persistCalls, clock, ghostVars>>

\* the gateway handles the request of c
GatewayServe(c, p) ==
    /\ c.stage = "fetch"
    /\ LET b == Body(TRUE, FALSE, c.title, c.content)
           r == POST(env, b, p)
       IN /\ providerCalls' = providerCalls + (IF r.invoked THEN 1 ELSE 0)
          /\ calls' = (calls \ {c}) \cup
                {[c EXCEPT !.stage = "resp",
                           !.resp = Response(r.status, TRUE, r.error, r.summary)]}
    /\ UNCHANGED <<env, gw, extPosts, propVars, summary, isSummarizing, summaryError,
                   summaryUpdatedAt, nCalls, persistCalls, clock, ghostVars>>

\* something in front of the gateway answers instead of it
InfraAnswer(c, r) ==
    /\ c.stage = "fetch"
    /\ calls' = (calls \ {c}) \cup {[c EXCEPT !.stage = "resp", !.resp = r]}
    /\ UNCHANGED <<env, gwVars, propVars, summary, isSummarizing, summaryError,
                   summaryUpdatedAt, nCalls, persistCalls, clock, ghostVars>>

\* await response.json(), the ok test, and the call of saveMemoSummary
ReceiveResponse(c) ==
    /\ c.stage = "resp"
    /\ IF ~c.resp.parses
       THEN /\ Fail(c, Thrown(TRUE, JsonErrorMsg))
            /\ UNCHANGED persistCalls
       ELSE IF ~Ok(c.resp.status)
       THEN /\ Fail(c, NotOkError(c.resp))
            /\ UNCHANGED persistCalls
       ELSE /\ calls' = (calls \ {c}) \cup
                    {[c EXCEPT !.stage = "save", !.data = c.resp.summary]}
            /\ persistCalls' = persistCalls + 1
            /\ UNCHANGED <<summary, isSummarizing, summaryError, summaryUpdatedAt>>
    /\ UNCHANGED <<env, gwVars, propVars, nCalls, clock, ghostVars>>

\* saveMemoSummary throws
SaveThrows(c) ==
    /\ c.stage = "save"
    /\ Fail(c, Thrown(TRUE, SaveErrorMsg))
    /\ UNCHANGED <<env, gwVars, propVars, nCalls, persistCalls, clock, ghostVars>>

\* saveMemoSummary returns no record
SaveReturnsNothing(c) ==
    /\ c.stage = "save"
    /\ clock' = clock + 1
    /\ SetState(Finally(ApplySaved(CurState, NoMemo, c.data, clock + 1)))
    /\ calls' = calls \ {c}
    /\ produced' = <<[call |-> c.id, memoId |-> c.memoId, shown |-> memo.id,
                      pair |-> <<c.data, clock + 1>>, persisted |-> FALSE]>>
    /\ UNCHANGED <<env, gwVars, propVars, nCalls, persistCalls, loaded>>

\* saveMemoSummary returns the updated record; the parent's onMemoUpdate either
\* is absent (refresh = FALSE) or stores the record and re-renders the viewer
SaveReturnsRecord(c, refresh) ==
    /\ c.stage = "save"
    /\ clock' = clock + 1
    /\ LET rec == SaveMemoSummary(c.memoId, c.data, clock + 1)
           next == IF refresh /\ memo.id = rec.id THEN rec ELSE memo
       IN /\ memos' = IF refresh THEN [memos EXCEPT ![rec.id] = rec] ELSE memos
          /\ memo' = next
          /\ SetState(Finally(ResyncEffect(
                 ApplySaved(CurState, rec, c.data, clock + 1), memo, next)))
          /\ Track(memo, next)
          /\ produced' = <<[call |-> c.id, memoId |-> c.memoId, shown |-> memo.id,
                            pair |-> <<OrEmpty(rec.summary),
                                       OrNull(rec.summaryUpdatedAt)>>,
                            persisted |-> TRUE]>>
    /\ calls' = calls \ {c}
    /\ UNCHANGED <<env, gwVars, isOpen, nCalls, persistCalls>>

(* -------------------------------------------------- other gateway callers *)
ExternalPOST(b, p) ==
    /\ extPosts < MaxExternal
    /\ extPosts' = extPosts + 1
    /\ LET r == POST(env, b, p)
       IN /\ gw' = <<[apiKey |-> env, body |-> b, reply |-> r]>>
          /\ providerCalls' = providerCalls + (IF r.invoked THEN 1 ELSE 0)
    /\ UNCHANGED <<env, propVars, summary, isSummarizing, summaryError,
                   summaryUpdatedAt, calls, nCalls, persistCalls, clock, ghostVars>>

(* ------------------------------------------------------------------- Next *)
\* the steps that carry a started handler instance forward
Completes ==
    \E c \in calls :
        \/ FetchRejects(c)
        \/ \E p \in ProviderOutcomes : GatewayServe(c, p)
        \/ \E r \in InfraResponses : InfraAnswer(c, r)
        \/ ReceiveResponse(c)
        \/ SaveThrows(c)
        \/ SaveReturnsNothing(c)
        \/ \E refresh \in BOOLEAN : SaveReturnsRecord(c, refresh)

Next ==
    \/ \E id \in MemoIds : OpenMemo(id)
    \/ \E keep \in BOOLEAN : CloseViewer(keep)
    \/ Trigger
    \/ \E c \in calls : FetchRejects(c)
    \/ \E c \in calls, p \in ProviderOutcomes : GatewayServe(c, p)
    \/ \E c \in calls, r \in InfraResponses : InfraAnswer(c, r)
    \/ \E c \in calls : ReceiveResponse(c)
    \/ \E c \in calls : SaveThrows(c)
    \/ \E c \in calls : SaveReturnsNothing(c)
    \/ \E c \in calls, refresh \in BOOLEAN : SaveReturnsRecord(c, refresh)

Spec == Init /\ [][Next]_vars

\* the gateway alone, under requests of any shape
GatewayNext == \E b \in Bodies, p \in ProviderOutcomes : ExternalPOST(b, p)

GatewaySpec == GatewayInit /\ [][GatewayNext]_vars

\* every request is answered or fails, and saveMemoSummary returns or throws
LiveSpec == Spec /\ WF_vars(Completes)


(* ================================================================= claims *)
LastReply == gw[1].reply
LastBody == gw[1].body

\* a request whose JSON body is an object without usable content
MissingContent(b) == b.parses /\ ~b.isNull /\ Falsy(b.content)

\* C1: when the credential is absent the gateway answers 500 with the
\* credential-missing error and never invokes the provider, whatever the body
C1_CredentialFirst ==
    /\ (gw # <<>> /\ Falsy(gw[1].apiKey)) =>
          /\ LastReply.status = 500
          /\ LastReply.error = KeyMissingMsg
          /\ ~LastReply.invoked
    /\ Falsy(env) => providerCalls = 0

C1_Witness ==
    /\ gw # <<>>
    /\ Falsy(gw[1].apiKey)
    /\ LastBody.parses /\ LastBody.content = "c"
    /\ LastReply.status = 500

\* C2 as stated: every request missing content is answered 400 "Content is
\* required" without a provider call
C2_Original ==
    (gw # <<>> /\ MissingContent(LastBody)) =>
        /\ LastReply.status = 400
        /\ LastReply.error = ContentRequiredMsg
        /\ ~LastReply.invoked

\* C2 amended: when the credential is present, every request missing content
\* is answered 400 "Content is required" without a provider call
C2_MissingContent ==
    (gw # <<>> /\ ~Falsy(gw[1].apiKey) /\ MissingContent(LastBody)) =>
        /\ LastReply.status = 400
        /\ LastReply.error = ContentRequiredMsg
        /\ ~LastReply.invoked

C2_Witness ==
    /\ gw # <<>>
    /\ ~Falsy(gw[1].apiKey)
    /\ LastBody.parses /\ LastBody.content = Null
    /\ LastReply.status = 400


LastProduced == produced[1]

Outstanding == {c \in calls : c.stage \in {"fetch", "resp"}}

\* C4: with the control disabled while isSummarizing is set, the Requestor
\* never has more than one gateway request outstanding
C4_AtMostOneInFlight == Cardinality(Outstanding) <= 1 /\ Cardinality(calls) <= 1

C4_Witness ==
    /\ nCalls = 2
    /\ Cardinality(Outstanding) = 1
    /\ \E c \in Outstanding : c.memoId # memo.id

\* C5: the result of a request started for memo M is applied while M, and no
\* other memo, is the memo on display
C5_AppliedToOwnMemo ==
    produced # <<>> => LastProduced.shown \in {Null, LastProduced.memoId}


\* the handler instance c has reached its finally block in this step
Finished(c) == \A d \in calls' : d.id # c.id

StoredPair(m) == <<OrEmpty(m.summary), OrNull(m.summaryUpdatedAt)>>

GatewayCallFailed(c) == Finished(c) /\ c.stage \in {"fetch", "resp"}

BodyError(c) == c.stage = "resp" /\ c.resp.parses /\ ~Falsy(c.resp.error)

C8_FailureKeepsSummary ==
    [][\A c \in calls : (Finished(c) /\ BodyError(c) /\ ~Ok(c.resp.status)) =>
          /\ summaryError' = c.resp.error
          /\ summary' = summary
          /\ summaryUpdatedAt' = summaryUpdatedAt]_vars

C8_Witness ==
    /\ summaryError = "boom"
    /\ display = <<"old", T1>>
    /\ calls = {}

\* C9: after a successful gateway answer with text S, when saveMemoSummary
\* returns no record the attempt ends without an error, showing S with a
\* freshly generated timestamp that is neither the displayed nor the stored
\* one; when it returns a record, the record's pair is shown
C9_SaveOutcome ==
    [][\A c \in calls : (Finished(c) /\ c.stage = "save" /\ produced' # produced) =>
          /\ ~isSummarizing'
          /\ summaryError' = Null
          /\ display' = produced'[1].pair
          /\ ~produced'[1].persisted =>
                /\ summary' = c.data
                /\ summaryUpdatedAt' = clock'
                /\ summaryUpdatedAt' > clock
                /\ summaryUpdatedAt' \notin
                      {summaryUpdatedAt, OrNull(memo.summaryUpdatedAt),
                       OrNull(memos[c.memoId].summaryUpdatedAt)}]_vars

C9_Witness ==
    /\ produced # <<>> /\ ~LastProduced.persisted
    /\ LastProduced.memoId = "A" /\ memo.id = "A"
    /\ summary = "S1" /\ summaryUpdatedAt = clock /\ clock > T1
    /\ loaded = <<"old", T1>>
    /\ summaryError = Null /\ ~isSummarizing

\* C10: every started attempt leaves Summarizing once its calls complete; the
\* flag is never set without a handler instance, nor together with an error
C10_LeavesSummarizing ==
    /\ [](isSummarizing => calls # {})
    /\ [](~(isSummarizing /\ summaryError # Null))
    /\ (calls # {}) ~> (calls = {} /\ ~isSummarizing)

C10_Witness ==
    /\ nCalls >= 1
    /\ calls = {}
    /\ ~isSummarizing
    /\ summaryError # Null

====
